---------------------------- MODULE Spec2Model ----------------------------
(***************************************************************************)
(* Model of the Minesweeper rules engine of src/src/main.rs: grid          *)
(* generation (random_coordinates, find_adjacent, initial_state), the win  *)
(* evaluator (is_game_won) and the two transition functions (open_cell,    *)
(* change_flag).                                                           *)
(*                                                                         *)
(* A Point is <<x, y>> (column, row); the grid is indexed grid[y][x] as in *)
(* the source.  Indices start at 0.                                        *)
(***************************************************************************)
EXTENDS Integers, Sequences, FiniteSets

\* Bounds of the model: the largest number of cells (width * height) of a
\* game that is played, the largest number of cells of a grid that is only
\* generated, and by how much the requested mine count may exceed the grid.
MaxCells == 4
GenMaxCells == 9
MaxExcess == 1

\* Bounds of the generation of sparse grids: the largest width and height,
\* and the largest mine count.
AdjMaxDim == 4
AdjMaxMines == 1

VARIABLES
    width,        \* initial_state's parameter width
    height,       \* initial_state's parameter height
    mines,        \* initial_state's parameter mines (the requested count)
    pc,           \* where initial_state is: "sample", "inject" or "play" (returned)
    coordinates,  \* the HashSet of random_coordinates
    todo,         \* the mines the injection loop has not visited yet
    grid,         \* the grid of the GameState (the local grid during generation)
    status,       \* the status of the GameState ("None" before it is built)
    noflag        \* the GameState of the same run with no change_flag applied

vars == <<width, height, mines, pc, coordinates, todo, grid, status, noflag>>

----------------------------------------------------------------------------
\* Data types (main.rs 6-44)

Flag == {"Unflagged", "Unsure", "Sure"}

Empty(n) == [kind |-> "Empty", adjacent_mines |-> n]
Mine == [kind |-> "Mine"]

Opened == [tag |-> "Opened"]
Unopened(flag) == [tag |-> "Unopened", flag |-> flag]

Cell(cell_type, state) == [cell_type |-> cell_type, state |-> state]

GameState(st, g) == [status |-> st, grid |-> g]

\* The points of a w x h grid.
Points(w, h) == (0 .. w - 1) \X (0 .. h - 1)

\* grid[y][x] := cell
SetCell(g, x, y, cell) == [g EXCEPT ![y] = [g[y] EXCEPT ![x] = cell]]

min(a, b) == IF a <= b THEN a ELSE b

----------------------------------------------------------------------------
\* find_adjacent (main.rs 59-69)

\* The half-open range lo..hi collected into a vector.
RangeVec(lo, hi) == [i \in 1 .. (IF hi > lo THEN hi - lo ELSE 0) |-> lo + i - 1]

\* Itertools::cartesian_product: every x of xs, in order, paired with every
\* y of ys, in order.
cartesian_product(xs, ys) ==
    [k \in 1 .. Len(xs) * Len(ys) |->
        <<xs[((k - 1) \div Len(ys)) + 1], ys[((k - 1) % Len(ys)) + 1]>>]

\* find_adjacent with the upper end of both ranges one too low.
find_adjacent_short(x, y, w, h) ==
    LET xs == RangeVec(IF x = 0 THEN 0 ELSE x - 1, min(x + 1, w))
        ys == RangeVec(IF y = 0 THEN 0 ELSE y - 1, min(y + 1, h))
        keep(q) == x # q[1] \/ y # q[2]
    IN  SelectSeq(cartesian_product(xs, ys), keep)

\* find_adjacent without the filter that drops (x, y) itself.
find_adjacent_with_self(x, y, w, h) ==
    LET xs == RangeVec(IF x = 0 THEN 0 ELSE x - 1, min(x + 2, w))
        ys == RangeVec(IF y = 0 THEN 0 ELSE y - 1, min(y + 2, h))
    IN  cartesian_product(xs, ys)

find_adjacent(x, y, w, h) ==
    LET xs == RangeVec(IF x = 0 THEN 0 ELSE x - 1, min(x + 2, w))
        ys == RangeVec(IF y = 0 THEN 0 ELSE y - 1, min(y + 2, h))
        keep(q) == x # q[1] \/ y # q[2]
    IN  SelectSeq(cartesian_product(xs, ys), keep)

----------------------------------------------------------------------------
\* initial_state (main.rs 71-115)

\* The grid allocated at lines 72-81.
BlankGrid(w, h) ==
    [y \in 0 .. h - 1 |-> [x \in 0 .. w - 1 |-> Cell(Empty(0), Unopened("Unflagged"))]]

\* IncrementCell with the count set to 1 instead of incremented.
IncrementCell_set_one(g, q) ==
    LET cell == g[q[2]][q[1]]
    IN  IF cell.cell_type.kind = "Empty"
        THEN SetCell(g, q[1], q[2], Cell(Empty(1), cell.state))
        ELSE g

\* IncrementCell without the Mine arm of the match: an adjacent mine is
\* overwritten by an Empty cell counting one mine.
IncrementCell_overwrites_mine(g, q) ==
    LET cell == g[q[2]][q[1]]
    IN  IF cell.cell_type.kind = "Empty"
        THEN SetCell(g, q[1], q[2],
                     Cell(Empty(cell.cell_type.adjacent_mines + 1), cell.state))
        ELSE SetCell(g, q[1], q[2], Cell(Empty(1), cell.state))

\* The increment of one adjacent cell (lines 96-107).
IncrementCell(g, q) ==
    LET cell == g[q[2]][q[1]]
    IN  IF cell.cell_type.kind = "Empty"
        THEN SetCell(g, q[1], q[2],
                     Cell(Empty(cell.cell_type.adjacent_mines + 1), cell.state))
        ELSE g

\* The loop over adj (lines 95-108), from index i on.
RECURSIVE IncrementAdjacent(_, _, _)
IncrementAdjacent(g, adj, i) ==
    IF i > Len(adj) THEN g
    ELSE IncrementAdjacent(IncrementCell(g, adj[i]), adj, i + 1)

\* One iteration of the loop over the mines (lines 86-109).
InjectOne(g, m, w, h) ==
    LET mine == g[m[2]][m[1]]
        g1 == SetCell(g, m[1], m[2], Cell(Mine, mine.state))
    IN  IncrementAdjacent(g1, find_adjacent(m[1], m[2], w, h), 1)

----------------------------------------------------------------------------
\* is_game_won (main.rs 117-132)

CellWon(cell) ==
    CASE cell.cell_type.kind = "Empty" /\ cell.state.tag = "Opened" -> TRUE
      [] cell.cell_type.kind = "Empty" /\ cell.state.tag = "Unopened" -> FALSE
      [] cell.cell_type.kind = "Mine" -> TRUE

\* is_game_won that also asks every mine to be flagged Sure or opened.
is_game_won_mines_flagged(g) ==
    \A y \in DOMAIN g : \A x \in DOMAIN g[y] :
        IF g[y][x].cell_type.kind = "Mine"
        THEN g[y][x].state \in {Opened, Unopened("Sure")}
        ELSE g[y][x].state.tag = "Opened"

is_game_won(g) ==
    \A y \in DOMAIN g : \A x \in DOMAIN g[y] : CellWon(g[y][x])

----------------------------------------------------------------------------
\* open_cell (main.rs 134-173)

\* open_cell without the match on state.status: a finished game is played on.
open_cell_no_status_guard(state, point) ==
    LET x == point[1]
        y == point[2]
        cell == state.grid[y][x]
    IN  IF cell.state.tag = "Opened"
        THEN GameState(state.status, state.grid)
        ELSE LET g == SetCell(state.grid, x, y, Cell(cell.cell_type, Opened))
             IN  IF cell.cell_type.kind = "Mine"
                 THEN GameState("Lost", g)
                 ELSE GameState(IF is_game_won(g) THEN "Won" ELSE "InProgress", g)

\* open_cell that refuses to open a cell flagged Sure.
open_cell_keep_sure(state, point) ==
    IF state.status = "InProgress"
    THEN LET x == point[1]
             y == point[2]
             cell == state.grid[y][x]
         IN  IF cell.state \in {Opened, Unopened("Sure")}
             THEN GameState(state.status, state.grid)
             ELSE LET g == SetCell(state.grid, x, y, Cell(cell.cell_type, Opened))
                  IN  IF cell.cell_type.kind = "Mine"
                      THEN GameState("Lost", g)
                      ELSE GameState(IF is_game_won(g) THEN "Won" ELSE "InProgress", g)
    ELSE GameState(state.status, state.grid)

\* open_cell that, on a flagged cell, only removes the flag; the next open
\* of the cell opens it.
open_cell_unflag_first(state, point) ==
    IF state.status = "InProgress"
    THEN LET x == point[1]
             y == point[2]
             cell == state.grid[y][x]
         IN  IF cell.state.tag = "Opened"
             THEN GameState(state.status, state.grid)
             ELSE IF cell.state.flag # "Unflagged"
             THEN GameState(state.status,
                            SetCell(state.grid, x, y,
                                    Cell(cell.cell_type, Unopened("Unflagged"))))
             ELSE LET g == SetCell(state.grid, x, y, Cell(cell.cell_type, Opened))
                  IN  IF cell.cell_type.kind = "Mine"
                      THEN GameState("Lost", g)
                      ELSE GameState(IF is_game_won(g) THEN "Won" ELSE "InProgress", g)
    ELSE GameState(state.status, state.grid)

\* open_cell that builds the opened cell afresh instead of copying the
\* remaining fields of the old one (`..cell`): the content is lost.
open_cell_resets_content(state, point) ==
    IF state.status = "InProgress"
    THEN LET x == point[1]
             y == point[2]
             cell == state.grid[y][x]
         IN  IF cell.state.tag = "Opened"
             THEN GameState(state.status, state.grid)
             ELSE LET g == SetCell(state.grid, x, y, Cell(Empty(0), Opened))
                  IN  IF cell.cell_type.kind = "Mine"
                      THEN GameState("Lost", g)
                      ELSE GameState(IF is_game_won(g) THEN "Won" ELSE "InProgress", g)
    ELSE GameState(state.status, state.grid)

\* open_cell with the auto-open of the TODO at line 146: opening an Empty
\* cell without adjacent mines also opens the cells adjacent to it.
open_cell_auto_open(state, point) ==
    IF state.status = "InProgress"
    THEN LET x == point[1]
             y == point[2]
             cell == state.grid[y][x]
         IN  IF cell.state.tag = "Opened"
             THEN GameState(state.status, state.grid)
             ELSE LET g == SetCell(state.grid, x, y, Cell(cell.cell_type, Opened))
                      adj == find_adjacent(x, y, width, height)
                      near == {adj[i] : i \in 1 .. Len(adj)}
                      g2 == [r \in DOMAIN g |-> [c \in DOMAIN g[r] |->
                                IF <<c, r>> \in near
                                THEN Cell(g[r][c].cell_type, Opened)
                                ELSE g[r][c]]]
                  IN  IF cell.cell_type.kind = "Mine"
                      THEN GameState("Lost", g)
                      ELSE IF cell.cell_type.adjacent_mines = 0
                      THEN GameState(IF is_game_won(g2) THEN "Won" ELSE "InProgress", g2)
                      ELSE GameState(IF is_game_won(g) THEN "Won" ELSE "InProgress", g)
    ELSE GameState(state.status, state.grid)

\* open_cell that returns the grid it was given in the Mine arm: the game
\* is Lost but the mine is not shown as Opened.
open_cell_lost_keeps_grid(state, point) ==
    IF state.status = "InProgress"
    THEN LET x == point[1]
             y == point[2]
             cell == state.grid[y][x]
         IN  IF cell.state.tag = "Opened"
             THEN GameState(state.status, state.grid)
             ELSE LET g == SetCell(state.grid, x, y, Cell(cell.cell_type, Opened))
                  IN  IF cell.cell_type.kind = "Mine"
                      THEN GameState("Lost", state.grid)
                      ELSE GameState(IF is_game_won(g) THEN "Won" ELSE "InProgress", g)
    ELSE GameState(state.status, state.grid)

open_cell(state, point) ==
    IF state.status = "InProgress"
    THEN LET x == point[1]
             y == point[2]
             cell == state.grid[y][x]
         IN  IF cell.state.tag = "Opened"
             THEN GameState(state.status, state.grid)
             ELSE LET g == SetCell(state.grid, x, y, Cell(cell.cell_type, Opened))
                  IN  IF cell.cell_type.kind = "Mine"
                      THEN GameState("Lost", g)
                      ELSE GameState(IF is_game_won(g) THEN "Won" ELSE "InProgress", g)
    ELSE GameState(state.status, state.grid)

----------------------------------------------------------------------------
\* change_flag (main.rs 175-207)

\* change_flag with open_cell's Mine arm copied into it: flagging a mine
\* loses the game.
change_flag_mine_loses(state, point, flag) ==
    IF state.status = "InProgress"
    THEN LET x == point[1]
             y == point[2]
             cell == state.grid[y][x]
         IN  IF cell.state.tag = "Opened"
             THEN GameState(state.status, state.grid)
             ELSE LET g == SetCell(state.grid, x, y, Cell(cell.cell_type, Unopened(flag)))
                  IN  IF cell.cell_type.kind = "Mine"
                      THEN GameState("Lost", g)
                      ELSE GameState(IF is_game_won(g) THEN "Won" ELSE "InProgress", g)
    ELSE GameState(state.status, state.grid)

\* change_flag that toggles: setting the flag a cell already carries
\* removes it.
change_flag_toggle(state, point, flag) ==
    IF state.status = "InProgress"
    THEN LET x == point[1]
             y == point[2]
             cell == state.grid[y][x]
         IN  IF cell.state.tag = "Opened"
             THEN GameState(state.status, state.grid)
             ELSE LET new == IF cell.state.flag = flag THEN "Unflagged" ELSE flag
                      g == SetCell(state.grid, x, y, Cell(cell.cell_type, Unopened(new)))
                  IN  GameState(IF is_game_won(g) THEN "Won" ELSE "InProgress", g)
    ELSE GameState(state.status, state.grid)

\* change_flag without the match on cell.state: a flag set on an Opened
\* cell makes it Unopened again.
change_flag_no_opened_guard(state, point, flag) ==
    IF state.status = "InProgress"
    THEN LET x == point[1]
             y == point[2]
             cell == state.grid[y][x]
             g == SetCell(state.grid, x, y, Cell(cell.cell_type, Unopened(flag)))
         IN  GameState(IF is_game_won(g) THEN "Won" ELSE "InProgress", g)
    ELSE GameState(state.status, state.grid)

change_flag(state, point, flag) ==
    IF state.status = "InProgress"
    THEN LET x == point[1]
             y == point[2]
             cell == state.grid[y][x]
         IN  IF cell.state.tag = "Opened"
             THEN GameState(state.status, state.grid)
             ELSE LET g == SetCell(state.grid, x, y, Cell(cell.cell_type, Unopened(flag)))
                  IN  GameState(IF is_game_won(g) THEN "Won" ELSE "InProgress", g)
    ELSE GameState(state.status, state.grid)

----------------------------------------------------------------------------
\* The state machine

\* The current GameState.
State == GameState(status, grid)

\* initial_state is entered with its parameters; the grid is allocated and
\* random_coordinates starts with an empty set.
InitWith(maxc) ==
    /\ width \in 1 .. maxc
    /\ height \in 1 .. maxc
    /\ width * height <= maxc
    /\ mines \in 0 .. width * height + MaxExcess
    /\ pc = "sample"
    /\ coordinates = {}
    /\ todo = {}
    /\ grid = BlankGrid(width, height)
    /\ status = "None"
    /\ noflag = GameState("None", grid)

Init == InitWith(MaxCells)

GenInit == InitWith(GenMaxCells)

\* initial_state entered for a wide grid with few mines.
AdjInit ==
    /\ width \in 1 .. AdjMaxDim
    /\ height \in 1 .. AdjMaxDim
    /\ mines \in 0 .. min(AdjMaxMines, width * height)
    /\ pc = "sample"
    /\ coordinates = {}
    /\ todo = {}
    /\ grid = BlankGrid(width, height)
    /\ status = "None"
    /\ noflag = GameState("None", grid)

\* Sample with the x range one too short (0..max_width - 1): the last
\* column is never drawn.
Sample_short_range ==
    /\ pc = "sample"
    /\ Cardinality(coordinates) < mines
    /\ \E p \in Points(width - 1, height) : coordinates' = coordinates \cup {p}
    /\ UNCHANGED <<width, height, mines, pc, todo, grid, status, noflag>>

\* One iteration of the rejection-sampling loop (main.rs 52-54).
Sample ==
    /\ pc = "sample"
    /\ Cardinality(coordinates) < mines
    /\ \E p \in Points(width, height) : coordinates' = coordinates \cup {p}
    /\ UNCHANGED <<width, height, mines, pc, todo, grid, status, noflag>>

\* ReturnCoordinates with the count capped at the size of the grid: the
\* loop also ends once every coordinate is in the set.
ReturnCoordinates_capped ==
    /\ pc = "sample"
    /\ ~(Cardinality(coordinates) < min(mines, width * height))
    /\ pc' = "inject"
    /\ todo' = coordinates
    /\ UNCHANGED <<width, height, mines, coordinates, grid, status, noflag>>

\* The loop ends and the set is returned to initial_state (main.rs 52, 56, 83).
ReturnCoordinates ==
    /\ pc = "sample"
    /\ ~(Cardinality(coordinates) < mines)
    /\ pc' = "inject"
    /\ todo' = coordinates
    /\ UNCHANGED <<width, height, mines, coordinates, grid, status, noflag>>

\* One iteration of the loop over the mines, in whatever order the
\* collected HashSet yields them (main.rs 86-109).
InjectMine ==
    /\ pc = "inject"
    /\ \E m \in todo :
          /\ grid' = InjectOne(grid, m, width, height)
          /\ todo' = todo \ {m}
    /\ noflag' = GameState("None", grid')
    /\ UNCHANGED <<width, height, mines, pc, coordinates, status>>

\* initial_state returns the GameState (main.rs 111-114).
ReturnState ==
    /\ pc = "inject"
    /\ todo = {}
    /\ pc' = "play"
    /\ status' = "InProgress"
    /\ noflag' = GameState("InProgress", grid)
    /\ UNCHANGED <<width, height, mines, coordinates, todo, grid>>

\* The player opens a cell: state := open_cell(state, p).
OpenCell ==
    /\ pc = "play"
    /\ \E p \in Points(width, height) :
          /\ status' = open_cell(State, p).status
          /\ grid' = open_cell(State, p).grid
          /\ noflag' = open_cell(noflag, p)
    /\ UNCHANGED <<width, height, mines, pc, coordinates, todo>>

\* The player sets a flag: state := change_flag(state, p, f).  The run
\* without flags takes no step.
ChangeFlag ==
    /\ pc = "play"
    /\ \E p \in Points(width, height), f \in Flag :
          /\ status' = change_flag(State, p, f).status
          /\ grid' = change_flag(State, p, f).grid
    /\ UNCHANGED <<width, height, mines, pc, coordinates, todo, noflag>>

Next ==
    \/ Sample
    \/ ReturnCoordinates
    \/ InjectMine
    \/ ReturnState
    \/ OpenCell
    \/ ChangeFlag

Spec == Init /\ [][Next]_vars

\* Generation alone, on larger grids.
GenNext ==
    \/ Sample
    \/ ReturnCoordinates
    \/ InjectMine
    \/ ReturnState

GenSpec == GenInit /\ [][GenNext]_vars

----------------------------------------------------------------------------
\* Vocabulary of the properties

\* The points of the grid of the current game.
Board == Points(width, height)

CellAt(g, p) == g[p[2]][p[1]]

IsMine(g, p) == CellAt(g, p).cell_type.kind = "Mine"

IsEmpty(g, p) == CellAt(g, p).cell_type.kind = "Empty"

IsOpened(g, p) == CellAt(g, p).state.tag = "Opened"

\* Every non-mine cell of g is opened.
AllEmptyOpened(g) == \A p \in Board : IsEmpty(g, p) => IsOpened(g, p)

\* The unopened Empty cells of g.
UnopenedEmpty(g) == {p \in Board : IsEmpty(g, p) /\ ~IsOpened(g, p)}

\* initial_state has returned: a game is being played.
Playing == pc = "play"

Terminal == status \in {"Won", "Lost"}

----------------------------------------------------------------------------
\* C1 (absorption): in every reachable state whose status is Won or Lost,
\* open_cell at any in-bounds point and change_flag at any in-bounds point
\* with any flag return the state itself, status and grid.
C1_Absorption ==
    (Playing /\ Terminal) =>
        \A p \in Board :
            /\ open_cell(State, p) = State
            /\ \A f \in Flag : change_flag(State, p, f) = State

\* C1 witness: a lost game in which a cell is still unopened and an Empty
\* cell is opened, so that an open or a flag would act were it not lost.
C1_Witness ==
    /\ Playing
    /\ status = "Lost"
    /\ \E p \in Board : ~IsOpened(grid, p)
    /\ \E p \in Board : IsEmpty(grid, p) /\ IsOpened(grid, p)

\* C2 (as claimed): in every state of a game, the initial one included, the
\* status is Won if and only if every Empty cell is Opened.
C2_WonIffAllEmptyOpened ==
    Playing => (status = "Won" <=> AllEmptyOpened(grid))

\* C3: in an InProgress state, open_cell at a Mine cell yields status Lost,
\* whatever flag the cell carries and whatever the rest of the board holds.
C3_OpenMineLoses ==
    (Playing /\ status = "InProgress") =>
        \A p \in Board : IsMine(grid, p) => open_cell(State, p).status = "Lost"

\* C3 witness: a mine has been opened and the game is Lost, on a board
\* with an opened Empty cell and a flagged unopened cell.
C3_Witness ==
    /\ Playing
    /\ status = "Lost"
    /\ \E p \in Board : IsMine(grid, p) /\ IsOpened(grid, p)
    /\ \E p \in Board : IsEmpty(grid, p) /\ IsOpened(grid, p)
    /\ \E p \in Board : ~IsOpened(grid, p) /\ CellAt(grid, p).state.flag = "Sure"

\* C4: open_cell applied in an InProgress state to an unopened Empty cell
\* yields Won if every Empty cell of the resulting grid is Opened and
\* InProgress otherwise; it yields Won exactly when the cell was the last
\* unopened Empty cell.
C4_OpenEmptyStatus ==
    (Playing /\ status = "InProgress") =>
        \A p \in UnopenedEmpty(grid) :
            LET s1 == open_cell(State, p)
            IN  /\ s1.status = (IF AllEmptyOpened(s1.grid) THEN "Won" ELSE "InProgress")
                /\ (s1.status = "Won") <=> (UnopenedEmpty(grid) = {p})

\* C4 witness: a game with a mine left unopened was won by opening its
\* Empty cells, of which there are at least two.
C4_Witness ==
    /\ Playing
    /\ status = "Won"
    /\ \E p \in Board : IsMine(grid, p) /\ ~IsOpened(grid, p)
    /\ Cardinality({p \in Board : IsEmpty(grid, p) /\ IsOpened(grid, p)}) >= 2

\* C5 (as claimed): in every InProgress state, change_flag at any in-bounds
\* point with any flag yields status InProgress.
C5_FlagKeepsInProgress ==
    (Playing /\ status = "InProgress") =>
        \A p \in Board, f \in Flag : change_flag(State, p, f).status = "InProgress"

\* C6 (as claimed): at every point of a game the status equals the status
\* of the run on the same grid with the change_flag actions removed.
C6_FlagsDoNotAffectStatus ==
    Playing => status = noflag.status

\* C7: in every state whose status is not Lost, change_flag at any
\* in-bounds point with any flag yields a status other than Lost.
C7_FlagNeverLoses ==
    (Playing /\ status # "Lost") =>
        \A p \in Board, f \in Flag : change_flag(State, p, f).status # "Lost"

\* C7 witness: a game that is not lost in which a mine carries a flag set
\* by change_flag.
C7_Witness ==
    /\ Playing
    /\ status = "InProgress"
    /\ \E p \in Board : IsMine(grid, p) /\ CellAt(grid, p).state = Unopened("Sure")

\* C8: open_cell is idempotent in every reachable state, whatever its
\* status: opening p twice equals opening p once, status and grid; and
\* opening an Opened cell returns the state itself.
C8_OpenIdempotent ==
    Playing =>
        \A p \in Board :
            /\ open_cell(open_cell(State, p), p) = open_cell(State, p)
            /\ IsOpened(grid, p) => open_cell(State, p) = State

\* C8 witness: an InProgress game with an opened cell and a flagged
\* unopened cell (opening either is covered by the claim).
C8_Witness ==
    /\ Playing
    /\ status = "InProgress"
    /\ \E p \in Board : IsOpened(grid, p)
    /\ \E p \in Board : ~IsOpened(grid, p) /\ CellAt(grid, p).state.flag # "Unflagged"

\* C9: the grid initial_state returns holds exactly `mines` Mine cells,
\* every Empty cell's adjacent_mines is between 0 and 8, and it equals the
\* number of Mine cells among the coordinates find_adjacent returns for it.
C9_GeneratedGrid ==
    Playing =>
        /\ Cardinality({p \in Board : IsMine(grid, p)}) = mines
        /\ \A p \in Board :
              IsEmpty(grid, p) =>
                  LET adj == find_adjacent(p[1], p[2], width, height)
                      n == CellAt(grid, p).cell_type.adjacent_mines
                  IN  /\ 0 <= n /\ n <= 8
                      /\ n = Cardinality({i \in 1 .. Len(adj) : IsMine(grid, adj[i])})

\* C9 witness: a generated grid with an Empty cell surrounded by 8 mines.
C9_Witness ==
    /\ Playing
    /\ mines = 8
    /\ \E p \in Board : CellAt(grid, p).cell_type = Empty(8)

max(a, b) == IF a >= b THEN a ELSE b

\* The neighbourhood of <<x, y>> as the specification states it.
Neighbourhood(x, y, w, h) ==
    ((max(0, x - 1) .. min(w - 1, x + 1)) \X (max(0, y - 1) .. min(h - 1, y + 1)))
        \ {<<x, y>>}

\* C10: for every in-bounds point, find_adjacent returns exactly the
\* coordinates of the clipped 3x3 neighbourhood other than the point, each
\* once; never the point itself, never an out-of-bounds coordinate.
C10_FindAdjacent ==
    \A p \in Board :
        LET adj == find_adjacent(p[1], p[2], width, height)
            got == {adj[i] : i \in 1 .. Len(adj)}
        IN  /\ got = Neighbourhood(p[1], p[2], width, height)
            /\ Len(adj) = Cardinality(got)
            /\ p \notin got
            /\ got \subseteq Board

\* C10 witness: the one mine of a 3x3 grid is the interior cell and each of
\* its 8 neighbours counts it.
C10_Witness ==
    /\ Playing
    /\ width = 3
    /\ height = 3
    /\ IsMine(grid, <<1, 1>>)
    /\ \A p \in Board \ {<<1, 1>>} : CellAt(grid, p).cell_type = Empty(1)

\* Generation under fairness: the program keeps running (each enabled step
\* of random_coordinates and initial_state is eventually taken), and the
\* random draws are fair: while the loop runs and some coordinate is not in
\* the set yet, a draw eventually returns one that is not.
FairGenSpec ==
    /\ Init
    /\ [][GenNext]_vars
    /\ WF_vars(Sample)
    /\ WF_vars(ReturnCoordinates)
    /\ WF_vars(InjectMine)
    /\ WF_vars(ReturnState)

\* A game whose player keeps opening cells: while some open would change
\* the state, an open that changes it is eventually made.  Flags are set
\* at will.
FairPlaySpec ==
    /\ Init
    /\ [][Next]_vars
    /\ WF_vars(OpenCell)

\* Generation of sparse grids of up to AdjMaxDim x AdjMaxDim cells: every
\* in-bounds point is the mine find_adjacent is called for.
AdjSpec == AdjInit /\ [][GenNext]_vars

\* A corner of the grid, and a cell of its border.
IsCorner(p) == p[1] \in {0, width - 1} /\ p[2] \in {0, height - 1}

IsBorder(p) == p[1] \in {0, width - 1} \/ p[2] \in {0, height - 1}

\* C11: on a grid of width and height at least 3, find_adjacent returns 3
\* coordinates for a corner, 5 for a border cell that is no corner and 8
\* for an interior cell.
C11_AdjacentCounts ==
    (width >= 3 /\ height >= 3) =>
        \A p \in Board :
            Len(find_adjacent(p[1], p[2], width, height)) =
                (IF IsCorner(p) THEN 3 ELSE IF IsBorder(p) THEN 5 ELSE 8)

\* The number of cells of the generated grid that count n adjacent mines.
CountCells(n) == Cardinality({p \in Board : CellAt(grid, p).cell_type = Empty(n)})

\* C11 witness: on a grid wider and higher than 3 the one mine was injected
\* at a border cell that is no corner, and exactly 5 cells count it.
C11_Witness ==
    /\ Playing
    /\ width > 3
    /\ height > 3
    /\ \E p \in Board : IsMine(grid, p) /\ IsBorder(p) /\ ~IsCorner(p)
    /\ CountCells(1) = 5

\* The grid has `height` rows of `width` cells.
HasShape(g) ==
    /\ DOMAIN g = 0 .. height - 1
    /\ \A y \in DOMAIN g : DOMAIN g[y] = 0 .. width - 1

\* C12: throughout a game the grid keeps its height and width, its Mine
\* cells are the mines drawn at generation, `mines` in number, and no step
\* changes the content of a cell (Mine stays Mine, an Empty cell keeps its
\* adjacent_mines).
C12_ContentFixed ==
    /\ [](Playing =>
            /\ HasShape(grid)
            /\ \A p \in Board : IsMine(grid, p) <=> p \in coordinates
            /\ Cardinality({p \in Board : IsMine(grid, p)}) = mines)
    /\ [][Playing =>
            /\ HasShape(grid')
            /\ \A p \in Board : CellAt(grid', p).cell_type = CellAt(grid, p).cell_type]_vars

\* C12 witness: a lost game in which a mine and an Empty cell counting a
\* mine were opened and another cell was flagged.
C12_Witness ==
    /\ Playing
    /\ status = "Lost"
    /\ \E p \in Board : IsMine(grid, p) /\ IsOpened(grid, p)
    /\ \E p \in Board : IsEmpty(grid, p) /\ IsOpened(grid, p)
                         /\ CellAt(grid, p).cell_type.adjacent_mines >= 1
    /\ \E p \in Board : ~IsOpened(grid, p) /\ CellAt(grid, p).state.flag = "Unsure"

\* C13: with mines <= width * height the sampling loop ends, with exactly
\* `mines` distinct in-bounds coordinates, and initial_state then returns a
\* state with status InProgress whose cells are all Unopened(Unflagged).
C13_GenerationTerminates ==
    /\ (pc = "sample" /\ mines <= width * height) ~> Playing
    /\ [](pc \in {"inject", "play"} =>
            /\ Cardinality(coordinates) = mines
            /\ coordinates \subseteq Board)
    /\ [][pc' = "play" =>
            /\ status' = "InProgress"
            /\ \A p \in Board : CellAt(grid', p).state = Unopened("Unflagged")]_vars

\* C13 witness: initial_state has returned a grid of at least two cells
\* all of which are mines (every coordinate had to be drawn).
C13_Witness ==
    /\ Playing
    /\ mines >= 2
    /\ mines = width * height
    /\ status = "InProgress"

\* C14: with mines > width * height the set of drawn coordinates never
\* reaches size `mines`: the loop condition holds in every state, the loop
\* is never left and initial_state never returns a state.
C14_OversizedNeverReturns ==
    (mines > width * height) =>
        /\ pc = "sample"
        /\ Cardinality(coordinates) <= width * height
        /\ Cardinality(coordinates) < mines
        /\ status = "None"

\* C14 witness: every coordinate of the grid has been drawn and the loop
\* still runs.
C14_Witness ==
    /\ mines > width * height
    /\ width * height >= 2
    /\ coordinates = Board
    /\ pc = "sample"

\* C15: in every reachable state and for every in-bounds point p,
\* open_cell(s, p) leaves every cell other than p as it is, content, reveal
\* state and flag, and keeps the content of p.
C15_OpenTouchesTargetOnly ==
    Playing =>
        \A p \in Board :
            LET s1 == open_cell(State, p)
            IN  /\ HasShape(s1.grid)
                /\ \A q \in Board \ {p} : CellAt(s1.grid, q) = CellAt(grid, q)
                /\ CellAt(s1.grid, p).cell_type = CellAt(grid, p).cell_type

\* C15 witness: an Empty cell without adjacent mines is opened and a cell
\* adjacent to it is still unopened and carries the flag set on it.
C15_Witness ==
    /\ Playing
    /\ \E p \in Board :
          /\ CellAt(grid, p) = Cell(Empty(0), Opened)
          /\ \E q \in Neighbourhood(p[1], p[2], width, height) :
                CellAt(grid, q).state = Unopened("Sure")

\* C16: in an InProgress state, change_flag(s, p, f) returns s if the cell
\* at p is Opened; otherwise the cell at p becomes Unopened(f) with its
\* content, whatever flag it carried, and every other cell is unchanged.
\* change_flag opens no cell.
C16_FlagEffect ==
    (Playing /\ status = "InProgress") =>
        \A p \in Board, f \in Flag :
            LET s1 == change_flag(State, p, f)
            IN  /\ IsOpened(grid, p) => s1 = State
                /\ ~IsOpened(grid, p) =>
                      /\ HasShape(s1.grid)
                      /\ CellAt(s1.grid, p) = Cell(CellAt(grid, p).cell_type, Unopened(f))
                      /\ \A q \in Board \ {p} : CellAt(s1.grid, q) = CellAt(grid, q)
                /\ \A q \in Board : IsOpened(s1.grid, q) => IsOpened(grid, q)

\* C16 witness: an InProgress game with an opened cell, a flagged mine and
\* a flagged Empty cell.
C16_Witness ==
    /\ Playing
    /\ status = "InProgress"
    /\ \E p \in Board : IsOpened(grid, p)
    /\ \E p \in Board : CellAt(grid, p) = Cell(Mine, Unopened("Unsure"))
    /\ \E p \in Board : IsEmpty(grid, p) /\ CellAt(grid, p).state = Unopened("Sure")

\* The two-phase procedure of the specification (4.1, steps 3 and 4).
\* Phase 1: every selected coordinate becomes Mine, keeping its reveal state.
MarkMines(g, M) ==
    [y \in DOMAIN g |-> [x \in DOMAIN g[y] |->
        IF <<x, y>> \in M THEN Cell(Mine, g[y][x].state) ELSE g[y][x]]]

\* Phase 2, one mine: every neighbour of m (4.2) that is still Empty counts
\* one more.
CountMine(g, m) ==
    [y \in DOMAIN g |-> [x \in DOMAIN g[y] |->
        IF /\ <<x, y>> \in Neighbourhood(m[1], m[2], width, height)
           /\ g[y][x].cell_type.kind = "Empty"
        THEN Cell(Empty(g[y][x].cell_type.adjacent_mines + 1), g[y][x].state)
        ELSE g[y][x]]]

\* Phase 2: one mine after the other.
RECURSIVE CountMines(_, _)
CountMines(g, M) ==
    IF M = {} THEN g
    ELSE LET m == CHOOSE q \in M : TRUE
         IN  CountMines(CountMine(g, m), M \ {m})

TwoPhase(M) == CountMines(MarkMines(BlankGrid(width, height), M), M)

\* C17: whatever the set of mines drawn and whatever the order in which
\* the loop of initial_state visits them, the grid it returns is the grid
\* of the two-phase procedure for the same mines.
C17_SinglePassIsTwoPhase ==
    Playing => grid = TwoPhase(coordinates)

\* C17 witness: a returned grid with two mines adjacent to each other and
\* an Empty cell that counts at least two mines.
C17_Witness ==
    /\ Playing
    /\ \E p \in Board :
          /\ IsMine(grid, p)
          /\ \E q \in Neighbourhood(p[1], p[2], width, height) : IsMine(grid, q)
    /\ \E p \in Board : IsEmpty(grid, p) /\ CellAt(grid, p).cell_type.adjacent_mines >= 2

\* The opened mines of g.
OpenedMines(g) == {p \in Board : IsMine(g, p) /\ IsOpened(g, p)}

\* C18: in every state of a game the status is Lost if and only if some
\* Mine cell is Opened; at most one Mine cell is ever Opened; in a state
\* with status InProgress or Won no Mine cell is Opened.
C18_LostIffMineOpened ==
    Playing =>
        /\ (status = "Lost") <=> (OpenedMines(grid) # {})
        /\ Cardinality(OpenedMines(grid)) <= 1
        /\ status \in {"InProgress", "Won"} => OpenedMines(grid) = {}

\* C18 witness: a lost game with one mine opened and another mine unopened.
C18_Witness ==
    /\ Playing
    /\ status = "Lost"
    /\ Cardinality(OpenedMines(grid)) = 1
    /\ \E p \in Board : IsMine(grid, p) /\ ~IsOpened(grid, p)

\* The opened cells of g.
OpenedCells(g) == {p \in Board : IsOpened(g, p)}

\* C19: no step of a game closes a cell: a cell Opened before the step is
\* Opened after it, so the set of Opened cells never shrinks; and a step
\* opens at most one cell.
C19_RevealMonotonic ==
    [][Playing =>
          /\ OpenedCells(grid) \subseteq OpenedCells(grid')
          /\ Cardinality(OpenedCells(grid')) <= Cardinality(OpenedCells(grid)) + 1]_vars

\* C19 witness: a game still in progress with two cells opened, one after
\* the other, and a flag set on a third.
C19_Witness ==
    /\ Playing
    /\ status = "InProgress"
    /\ Cardinality(OpenedCells(grid)) >= 2
    /\ \E p \in Board : ~IsOpened(grid, p) /\ CellAt(grid, p).state.flag # "Unflagged"

\* C20: a game whose player keeps opening cells ends: every InProgress
\* state is followed by a Won or Lost state.  It ends after at most
\* width * height opens that change the state: each such open adds one
\* Opened cell, and an InProgress game has fewer than width * height.
C20_GameEnds ==
    /\ (Playing /\ status = "InProgress") ~> (status \in {"Won", "Lost"})
    /\ []((Playing /\ status = "InProgress") =>
            Cardinality(OpenedCells(grid)) < width * height)
    /\ [][Playing =>
            \A p \in Board :
                (State' = open_cell(State, p) /\ State' # State) =>
                    Cardinality(OpenedCells(grid')) = Cardinality(OpenedCells(grid)) + 1]_vars

\* C20 witness: a game of four cells ended only when the last of them was
\* opened, flags having been set on the way (one is overridden by the open).
C20_Witness ==
    /\ Playing
    /\ status \in {"Won", "Lost"}
    /\ width * height >= 4
    /\ Cardinality(OpenedCells(grid)) = width * height

=============================================================================
